---- MODULE Spec2Model ----
(***************************************************************************)
(* Raspberry Pi camera stream server (pi-service/libcamera_stream.py).     *)
(*                                                                         *)
(* The main thread initialises the camera, binds the HTTP server and runs  *)
(* serve_forever; ThreadingServer starts one daemon thread per accepted    *)
(* connection, which runs StreamingHandler.do_GET.  All handler threads    *)
(* share the one Picamera2 handle.  On KeyboardInterrupt main runs its     *)
(* finally block (picam2.stop(), httpd.shutdown()) and returns; the        *)
(* interpreter then exits and the daemon threads die with it.              *)
(*                                                                         *)
(* A connection's output is a sequence of tokens (status line, header      *)
(* line, blank line, boundary, body byte, CRLF), so that the multipart     *)
(* framing can be parsed back from what was written.                       *)
(***************************************************************************)
EXTENDS Integers, Sequences, FiniteSets, TLC

\* ---------------------------------------------------------------- bounds
MaxConns == 2      \* connections the listener accepts in one run
MaxCaps == 2       \* capture_array calls issued by handler threads in one run
MaxBody == 2       \* largest encoded JPEG buffer, in bytes
MaxCameras == 1    \* most cameras global_camera_info reports

Conns == 1..MaxConns

VARIABLES
    mainpc,     \* position of the main thread in main()
    cam,        \* camera lifecycle: Uninitialized, Probing, Configured, Started, Stopped
    cameras,    \* len(cameras) in initialize_camera; -1 while there is no list
    picam2,     \* the handle main holds: "None" or "Picamera2"
    httpd,      \* the server object: "None" (not constructed) or "bound"
    mainCalls,  \* calls main has issued on the camera and the server, in order
    exitCode,   \* what main returned (-1 while it runs)
    captures,   \* capture_array calls the handler threads have issued
    conn,       \* per connection: the request, the handler thread's position, its
                \* locals and the exception that ended it ("none" if none did)
    out         \* per connection: the tokens written to its socket so far

vars == <<mainpc, cam, cameras, picam2, httpd, mainCalls, exitCode, captures, conn, out>>

mainVars == <<mainpc, cam, cameras, picam2, httpd, mainCalls, exitCode>>

\* ------------------------------------------------------- text conversion
DigitChars == <<"0", "1", "2", "3", "4", "5", "6", "7", "8", "9">>

\* str(n) for a non-negative integer: its decimal digits, most significant first.
RECURSIVE Str(_)
Str(n) ==
    IF n < 10 THEN <<DigitChars[n + 1]>>
    ELSE Str(n \div 10) \o <<DigitChars[(n % 10) + 1]>>

DigitValue(ch) == CHOOSE d \in 0..9 : DigitChars[d + 1] = ch

\* What a client reads back from a Content-Length value.
RECURSIVE ParseInt(_)
ParseInt(s) ==
    IF Len(s) = 0 THEN 0
    ELSE 10 * ParseInt(SubSeq(s, 1, Len(s) - 1)) + DigitValue(s[Len(s)])

\* ---------------------------------------------------------------- tokens
Tok(t, h, v, c) == [t |-> t, h |-> h, v |-> v, by |-> c]

StatusLine(code, c) == Tok("status", "", Str(code), c)
Header(name, value, c) == Tok("header", name, value, c)
Blank(c) == Tok("blank", "", <<>>, c)

\* -------------------------------------------------------------- requests
Paths == {"/", "/stream.mjpg", "/health", "/nonexistent"}
Requests ==
    {[method |-> "GET", path |-> p] : p \in Paths}
        \cup {[method |-> "POST", path |-> "/stream.mjpg"]}
NoRequest == [method |-> "", path |-> ""]

IdleConn ==
    [req |-> NoRequest, pc |-> "idle", frame_count |-> 0, buffer |-> 0,
     error |-> "none"]

\* ------------------------------------------------------------------ Init
Init ==
    /\ mainpc = "check_system_requirements"
    /\ cam = "Uninitialized"
    /\ cameras = -1
    /\ picam2 = "None"
    /\ httpd = "None"
    /\ mainCalls = <<>>
    /\ exitCode = -1
    /\ captures = 0
    /\ conn = [c \in Conns |-> IdleConn]
    /\ out = [c \in Conns |-> <<>>]

\* ----------------------------------------------------------- main thread
\* A startup that is tried again after a failure.
StartupRetried ==
    /\ mainpc' = "initialize_camera"
    /\ exitCode' = exitCode
    /\ UNCHANGED <<picam2, httpd, captures, conn, out>>

\* A startup failure that falls through to main's "return 0".
StartupFailedReturnsZero ==
    /\ mainpc' = "exited"
    /\ exitCode' = 0
    /\ UNCHANGED <<picam2, httpd, captures, conn, out>>

\* main's "except Exception: return 1" around startup: nothing is cleaned up.
StartupFailed ==
    /\ mainpc' = "exited"
    /\ exitCode' = 1
    /\ UNCHANGED <<picam2, httpd, captures, conn, out>>

\* check_system_requirements(): its result only changes a log line.
CheckSystemRequirements ==
    /\ mainpc = "check_system_requirements"
    /\ mainpc' = "initialize_camera"
    /\ UNCHANGED <<cam, cameras, picam2, httpd, mainCalls, exitCode, captures, conn, out>>

\* cameras = Picamera2.global_camera_info()
ProbeCameras ==
    /\ mainpc = "initialize_camera"
    /\ \E n \in 0..MaxCameras : cameras' = n
    /\ cam' = "Probing"
    /\ mainpc' = "probed"
    /\ mainCalls' = Append(mainCalls, "global_camera_info")
    /\ UNCHANGED <<picam2, httpd, exitCode, captures, conn, out>>

\* An enumeration whose result is never tested.
NoCamerasUnchecked(n) == FALSE

\* if len(cameras) == 0: raise RuntimeError(...)
NoCameras(n) == n = 0

NoCameraDetected ==
    /\ mainpc = "probed"
    /\ NoCameras(cameras)
    /\ StartupFailed
    /\ UNCHANGED <<cam, cameras, mainCalls>>

\* Picamera2(camera_num=0), create_video_configuration, configure, set_controls;
\* any of them may raise.
ConfigureCamera ==
    /\ mainpc = "probed"
    /\ ~NoCameras(cameras)
    /\ \/ /\ cam' = "Configured"
          /\ mainpc' = "configured"
          /\ mainCalls' = Append(mainCalls, "configure")
          /\ UNCHANGED <<cameras, picam2, httpd, exitCode, captures, conn, out>>
       \/ /\ StartupFailed
          /\ UNCHANGED <<cam, cameras, mainCalls>>

\* picam2.start(), which may raise.
StartCamera ==
    /\ mainpc = "configured"
    /\ mainCalls' = Append(mainCalls, "start")
    /\ \/ /\ cam' = "Started"
          /\ mainpc' = "test_capture"
          /\ UNCHANGED <<cameras, picam2, httpd, exitCode, captures, conn, out>>
       \/ /\ StartupFailed
          /\ UNCHANGED <<cam, cameras>>

\* test_frame = picam2.capture_array(); return picam2.  A raise leaves the
\* camera started.  The local list of cameras is gone once the function has
\* returned; the final state of a failed start-up keeps what was found.
TestCapture ==
    /\ mainpc = "test_capture"
    /\ mainCalls' = Append(mainCalls, "capture_array")
    /\ \/ /\ picam2' = "Picamera2"
          /\ cameras' = -1
          /\ mainpc' = "create_server"
          /\ UNCHANGED <<cam, httpd, exitCode, captures, conn, out>>
       \/ /\ StartupFailed
          /\ UNCHANGED <<cam, cameras>>

\* httpd = ThreadingServer(server_address, handler_class): binds and listens,
\* or raises OSError.
CreateServer ==
    /\ mainpc = "create_server"
    /\ \/ /\ httpd' = "bound"
          /\ mainpc' = "serve_forever"
          /\ mainCalls' = Append(mainCalls, "bind")
          /\ UNCHANGED <<cam, cameras, picam2, exitCode, captures, conn, out>>
       \/ /\ StartupFailed
          /\ UNCHANGED <<cam, cameras, mainCalls>>

\* Ctrl+C while main is inside httpd.serve_forever(): the accept loop is left
\* and the except clause swallows the interrupt.
KeyboardInterrupt ==
    /\ mainpc = "serve_forever"
    /\ mainpc' = "finally"
    /\ UNCHANGED <<cam, cameras, picam2, httpd, mainCalls, exitCode, captures, conn, out>>

\* finally: picam2.stop()
CleanupStopCamera ==
    /\ mainpc = "finally"
    /\ cam' = "Stopped"
    /\ mainCalls' = Append(mainCalls, "stop")
    /\ mainpc' = "stopped"
    /\ UNCHANGED <<cameras, picam2, httpd, exitCode, captures, conn, out>>

\* finally: httpd.shutdown(), then return 0 and sys.exit.  serve_forever has
\* already returned, so shutdown() does not wait; the listening socket is never
\* closed (no server_close()).  Exiting ends the daemon threads.
CleanupShutdownServer ==
    /\ mainpc = "stopped"
    /\ mainCalls' = Append(mainCalls, "shutdown")
    /\ mainpc' = "exited"
    /\ exitCode' = 0
    /\ UNCHANGED <<cam, cameras, picam2, httpd, captures, conn, out>>

ProcessAlive == mainpc # "exited"

\* ------------------------------------------------------- handler threads
\* A server without ThreadingMixIn: a request is handled only once every
\* earlier one has been handled to the end.
RunnableInTurn(c) ==
    /\ mainpc # "exited"
    /\ \A d \in Conns : d < c => conn[d].pc \in {"idle", "done", "failed", "ended"}

\* ThreadingMixIn.process_request starts a thread per connection, so a handler
\* runs whenever the process is alive, whatever the other handlers do.
Runnable(c) == ProcessAlive

Finished == {"done", "failed", "ended"}

\* A dispatcher that serves the stream on '/' instead of redirecting to it.
RouteRootToStream(req) ==
    IF req.method # "GET" THEN "unsupported"
    ELSE IF req.path \in {"/", "/stream.mjpg"} THEN "send_headers"
    ELSE IF req.path = "/health" THEN "health_headers"
    ELSE "send_error"

\* do_GET's if/elif chain; BaseHTTPRequestHandler answers a method that has no
\* do_<METHOD> itself.
Route(req) ==
    IF req.method # "GET" THEN "unsupported"
    ELSE IF req.path = "/" THEN "redirect"
    ELSE IF req.path = "/stream.mjpg" THEN "send_headers"
    ELSE IF req.path = "/health" THEN "health_headers"
    ELSE "send_error"

\* An accept loop that gives up once a session has ended in an exception.
ServingUntilSessionFails ==
    /\ mainpc = "serve_forever"
    /\ \A c \in Conns : conn[c].error = "none"

\* httpd.serve_forever() is running: only KeyboardInterrupt in the main thread
\* ends it; what a handler thread raises stays in that thread.
Serving == mainpc = "serve_forever"

\* serve_forever accepts the next connection and hands it to a new thread,
\* which parses the request line and dispatches it.
Accept(c) ==
    /\ Serving
    /\ conn[c].pc = "idle"
    /\ \A d \in Conns : d < c => conn[d].pc # "idle"
    /\ \E r \in Requests :
          conn' = [conn EXCEPT ![c] = [@ EXCEPT !.req = r, !.pc = Route(r)]]
    /\ UNCHANGED <<mainVars, captures, out>>

\* A write call on the socket of connection c (self.wfile).  out records what
\* the completed calls delivered; a call that raises (client gone) counts as
\* having delivered nothing.
WriteOk(c, toks) == out' = [out EXCEPT ![c] = @ \o toks]

WriteRaises(c) == UNCHANGED out

\* send_response(code): status line plus the Server and Date headers.
SendResponse(code, c) ==
    <<StatusLine(code, c), Header("Server", <<"BaseHTTP">>, c), Header("Date", <<"now">>, c)>>

\* An exception that leaves do_GET: socketserver reports it and closes the
\* connection; no other thread is involved.
Unhandled(c) == [conn EXCEPT ![c].pc = "failed", ![c].error = "unhandled"]

Returned(c) == [conn EXCEPT ![c].pc = "done"]

\* A handler that answers with one block of tokens and returns.
Respond(c, toks) ==
    /\ \/ WriteOk(c, toks) /\ conn' = Returned(c)
       \/ WriteRaises(c) /\ conn' = Unhandled(c)
    /\ UNCHANGED <<mainVars, captures>>

RedirectResponse(c) ==
    SendResponse(301, c) \o <<Header("Location", <<"/stream.mjpg">>, c), Blank(c)>>

\* path '/': 301 to /stream.mjpg
Redirect(c) ==
    /\ Runnable(c)
    /\ conn[c].pc = "redirect"
    /\ Respond(c, RedirectResponse(c))

\* send_error(code): a complete response with an HTML error page as body.
ErrorResponse(code, c) ==
    SendResponse(code, c)
        \o <<Header("Connection", <<"close">>, c),
             Header("Content-Type", <<"text/html;charset=utf-8">>, c),
             Header("Content-Length", <<"len(body)">>, c),
             Blank(c),
             Tok("body", "", <<"error page">>, c)>>

\* else: self.send_error(404); self.end_headers()
NotFound(c) ==
    /\ Runnable(c)
    /\ conn[c].pc = "send_error"
    /\ Respond(c, ErrorResponse(404, c) \o <<Blank(c)>>)

\* no do_POST: the base class sends 501
Unsupported(c) ==
    /\ Runnable(c)
    /\ conn[c].pc = "unsupported"
    /\ Respond(c, ErrorResponse(501, c))

\* ---------------------------------------------------------------- health
HealthHeaders(c) ==
    SendResponse(200, c) \o <<Header("Content-Type", <<"application/json">>, c), Blank(c)>>

\* A camera field that follows the camera's lifecycle state.
CameraFieldByState(handle) ==
    IF handle # "None" /\ cam = "Started" THEN "connected" ELSE "disconnected"

\* "camera": "connected" if self.picam2 else "disconnected"
CameraField(handle) == IF handle # "None" THEN "connected" ELSE "disconnected"

HealthData(handle) == <<"status", "ok", "camera", CameraField(handle), "timestamp", "time.time()">>

\* A health check that tries the camera when there is a handle.
HealthCaptureCallsProbing(handle) == IF handle # "None" THEN 1 ELSE 0

\* capture_array calls _serve_health_check issues: none, self.picam2 is only
\* tested for truth.
HealthCaptureCalls(handle) == 0

\* send_response(200) .. end_headers()
ServeHealthHeaders(c) ==
    /\ Runnable(c)
    /\ conn[c].pc = "health_headers"
    /\ \/ /\ WriteOk(c, HealthHeaders(c))
          /\ conn' = [conn EXCEPT ![c].pc = "health_body"]
       \/ /\ WriteRaises(c)
          /\ conn' = Unhandled(c)
    /\ captures' = captures + HealthCaptureCalls(picam2)
    /\ UNCHANGED mainVars

\* self.wfile.write(json.dumps(health_data).encode())
ServeHealthBody(c) ==
    /\ Runnable(c)
    /\ conn[c].pc = "health_body"
    /\ Respond(c, <<Tok("json", "", HealthData(picam2), c)>>)

\* -------------------------------------------------------- stream session
\* A header block that is sent a second time.
StreamHeadersTwice(c) ==
    LET block == SendResponse(200, c)
                    \o <<Header("Age", <<"0">>, c),
                         Header("Cache-Control", <<"no-cache, private">>, c),
                         Header("Pragma", <<"no-cache">>, c),
                         Header("Content-Type", <<"multipart/x-mixed-replace; boundary=FRAME">>, c),
                         Blank(c)>>
    IN  block \o block

\* send_response(200), the four send_header calls and end_headers()
StreamHeaders(c) ==
    SendResponse(200, c)
        \o <<Header("Age", <<"0">>, c),
             Header("Cache-Control", <<"no-cache, private">>, c),
             Header("Pragma", <<"no-cache">>, c),
             Header("Content-Type", <<"multipart/x-mixed-replace; boundary=FRAME">>, c),
             Blank(c)>>

\* send_response(200) .. end_headers(), before the try block
SendStreamHeaders(c) ==
    /\ Runnable(c)
    /\ conn[c].pc = "send_headers"
    /\ \/ /\ WriteOk(c, StreamHeaders(c))
          /\ conn' = [conn EXCEPT ![c].pc = "capture"]
       \/ /\ WriteRaises(c)
          /\ conn' = Unhandled(c)
    /\ UNCHANGED <<mainVars, captures>>

\* frame = self.picam2.capture_array(): the call is issued
IssueCapture(c) ==
    /\ Runnable(c)
    /\ conn[c].pc = "capture"
    /\ captures < MaxCaps
    /\ captures' = captures + 1
    /\ conn' = [conn EXCEPT ![c].pc = "in_capture"]
    /\ UNCHANGED <<mainVars, out>>

\* An encode failure that sends the (empty) buffer all the same.
OnEncodeFailureSendsFrame(cn, c) == [cn EXCEPT ![c].pc = "send_frame", ![c].buffer = 0]

\* if not success: logger.warning(...); continue
OnEncodeFailure(cn, c) == [cn EXCEPT ![c].pc = "capture", ![c].buffer = 0]

\* capture_array returns a frame (a started camera delivers one; on a stopped
\* camera the call stays blocked or raises), the colour conversion follows and
\* success, buffer = cv2.imencode(...); if not success: continue
CaptureAndEncode(c) ==
    /\ Runnable(c)
    /\ conn[c].pc = "in_capture"
    /\ cam = "Started"
    /\ \/ \E n \in 1..MaxBody :
             conn' = [conn EXCEPT ![c].pc = "send_frame", ![c].buffer = n]
       \/ conn' = OnEncodeFailure(conn, c)
    /\ UNCHANGED <<mainVars, captures, out>>

\* A handler that swallows the capture exception and goes on with the loop.
OnCaptureExceptionContinue(cn, c) ==
    [cn EXCEPT ![c].pc = "capture", ![c].error = "capture_exception", ![c].buffer = 0]

\* A write exception that takes every open session down with it.
OnWriteExceptionAll(cn, c) ==
    [d \in Conns |->
        IF d = c \/ cn[d].pc \in {"capture", "in_capture", "send_frame", "sleep"}
        THEN [cn[d] EXCEPT !.pc = "ended", !.error = "write_exception", !.buffer = 0]
        ELSE cn[d]]

\* except Exception: log "disconnected" and return (the locals of the loop
\* body go with the frame; the counter is kept as the session's final count)
OnCaptureException(cn, c) ==
    [cn EXCEPT ![c].pc = "ended", ![c].error = "capture_exception", ![c].buffer = 0]

OnWriteException(cn, c) ==
    [cn EXCEPT ![c].pc = "ended", ![c].error = "write_exception", ![c].buffer = 0]

\* capture_array raises
CaptureRaises(c) ==
    /\ Runnable(c)
    /\ conn[c].pc = "in_capture"
    /\ conn' = OnCaptureException(conn, c)
    /\ UNCHANGED <<mainVars, captures, out>>

Boundary(c) == <<Tok("boundary", "", <<"--FRAME">>, c)>>

\* A length that counts the trailing CRLF as well.
ContentLengthWithCrlf(n) == Str(n + 2)

\* str(len(buffer))
ContentLength(n) == Str(n)

PartHeaders(c, n) ==
    <<Header("Content-Type", <<"image/jpeg">>, c),
      Header("Content-Length", ContentLength(n), c),
      Blank(c)>>

\* buffer.tobytes()
Body(c, n) == [i \in 1..n |-> Tok("byte", "", <<>>, c)]

Crlf(c) == <<Tok("crlf", "", <<>>, c)>>

\* the four writes of one part, in order
PartWrites(c, n) == <<Boundary(c), PartHeaders(c, n), Body(c, n), Crlf(c)>>

RECURSIVE Concat(_, _)
Concat(ws, k) == IF k = 0 THEN <<>> ELSE Concat(ws, k - 1) \o ws[k]

Part(c, n) == Concat(PartWrites(c, n), Len(PartWrites(c, n)))

\* A counter that is left as it is after a part.
FrameCountKept(n) == n

\* frame_count += 1
NextFrameCount(n) == n + 1

\* The four writes of lines 89-94 and frame_count += 1.  They go to the
\* session's own socket and touch nothing another thread reads, so they are
\* one step; when the k-th write raises, the writes before it were delivered.
WriteFrame(c) ==
    /\ Runnable(c)
    /\ conn[c].pc = "send_frame"
    /\ \/ /\ WriteOk(c, Part(c, conn[c].buffer))
          /\ conn' = [conn EXCEPT ![c].pc = "sleep", ![c].frame_count = NextFrameCount(@)]
       \/ /\ \E k \in 1..Len(PartWrites(c, conn[c].buffer)) :
                WriteOk(c, Concat(PartWrites(c, conn[c].buffer), k - 1))
          /\ conn' = OnWriteException(conn, c)
    /\ UNCHANGED <<mainVars, captures>>

\* time.sleep(0.033)
Sleep(c) ==
    /\ Runnable(c)
    /\ conn[c].pc = "sleep"
    /\ conn' = [conn EXCEPT ![c].pc = "capture"]
    /\ UNCHANGED <<mainVars, captures, out>>

\* ------------------------------------------------------------------ Next
Next ==
    \/ CheckSystemRequirements
    \/ ProbeCameras
    \/ NoCameraDetected
    \/ ConfigureCamera
    \/ StartCamera
    \/ TestCapture
    \/ CreateServer
    \/ KeyboardInterrupt
    \/ CleanupStopCamera
    \/ CleanupShutdownServer
    \/ \E c \in Conns :
          \/ Accept(c)
          \/ Redirect(c)
          \/ NotFound(c)
          \/ Unsupported(c)
          \/ ServeHealthHeaders(c)
          \/ ServeHealthBody(c)
          \/ SendStreamHeaders(c)
          \/ IssueCapture(c)
          \/ CaptureAndEncode(c)
          \/ CaptureRaises(c)
          \/ WriteFrame(c)
          \/ Sleep(c)

Spec == Init /\ [][Next]_vars

\* the next step of the thread that handles connection c
HandlerStep(c) ==
    \/ Redirect(c)
    \/ NotFound(c)
    \/ Unsupported(c)
    \/ ServeHealthHeaders(c)
    \/ ServeHealthBody(c)
    \/ SendStreamHeaders(c)
    \/ IssueCapture(c)
    \/ CaptureAndEncode(c)
    \/ CaptureRaises(c)
    \/ WriteFrame(c)
    \/ Sleep(c)

\* The runs in which the server is left running and no stream session comes
\* to an end: the operator does not interrupt, no write of a part and no capture
\* call raises.
NextStreamsStayOpen ==
    /\ Next
    /\ mainpc' # "finally"
    /\ \A c \in Conns : conn'[c].error \notin {"write_exception", "capture_exception"}

\* Every handler thread that can take a step is scheduled in the end.  Nothing
\* is assumed of the main thread or of clients connecting.
LiveSpec ==
    /\ Init
    /\ [][NextStreamsStayOpen]_vars
    /\ \A c \in Conns : WF_vars(HandlerStep(c) /\ NextStreamsStayOpen)

\* ------------------------------------------------------------ vocabulary
InLoop == {"capture", "in_capture", "send_frame", "sleep"}

IsStream(c) == conn[c].pc # "idle" /\ Route(conn[c].req) = "send_headers"
IsHealth(c) == conn[c].pc # "idle" /\ Route(conn[c].req) = "health_headers"

\* the step in which session c issues capture_array
IssuesCapture(c) == conn[c].pc = "capture" /\ conn'[c].pc = "in_capture"

StopIssued == \E i \in 1..Len(mainCalls) : mainCalls[i] = "stop"
ShutdownIssued == \E i \in 1..Len(mainCalls) : mainCalls[i] = "shutdown"

\* ---------------------------------------------------------------- claims

\* C1: once main has issued picam2.stop(), no Stream Session issues a
\* capture_array call any more.  The code stops the camera while the session
\* threads are still running, and they go on capturing.
C1_NoCaptureAfterStop ==
    [][\A c \in Conns : IssuesCapture(c) => ~StopIssued]_vars

\* C2 as stated: a session whose capture call raised is still in its loop.
C2_CaptureFailureKeepsSession ==
    \A c \in Conns : conn[c].error = "capture_exception" => conn[c].pc \in InLoop

\* C2 as amended: a capture call that raises ends that session (it leaves its
\* loop for good and issues no further capture) and changes nothing of any
\* other connection.
C2_CaptureFailureEndsSession ==
    /\ [](\A c \in Conns : conn[c].error = "capture_exception" => conn[c].pc = "ended")
    /\ [][\A c \in Conns :
            /\ conn[c].error = "capture_exception" => conn'[c] = conn[c]
            /\ (conn[c].error = "none" /\ conn'[c].error = "capture_exception") =>
                  /\ conn[c].pc = "in_capture"
                  /\ out' = out
                  /\ \A d \in Conns \ {c} : conn'[d] = conn[d]]_vars

\* a session ended by a capture exception on a started camera, next to a
\* session that is still in its loop
C2_Witness ==
    \E c, d \in Conns :
        /\ conn[c].error = "capture_exception" /\ conn[c].pc = "ended"
        /\ cam = "Started"
        /\ IsStream(d) /\ conn[d].pc \in InLoop

\* C3: a write failure in session a ends session a only: a leaves its loop,
\* every other connection keeps its state and its output, and the main thread
\* (the dispatcher) is untouched.
C3_WriteFailureIsolated ==
    [][\A a \in Conns :
          (conn[a].error = "none" /\ conn'[a].error = "write_exception") =>
              /\ conn'[a].pc = "ended"
              /\ \A b \in Conns \ {a} : conn'[b] = conn[b] /\ out'[b] = out[b]
              /\ UNCHANGED mainVars]_vars

\* session a ended by a write failure while the server runs, and another
\* session has delivered a part and is still in its loop
C3_Witness ==
    \E a, b \in Conns :
        /\ a # b
        /\ conn[a].error = "write_exception" /\ conn[a].pc = "ended"
        /\ IsStream(b) /\ conn[b].pc \in InLoop /\ conn[b].frame_count >= 1
        /\ mainpc = "serve_forever"

\* What the client of a stream reads after the response headers.
StreamBody(c) ==
    IF Len(out[c]) >= Len(StreamHeaders(c))
    THEN SubSeq(out[c], Len(StreamHeaders(c)) + 1, Len(out[c]))
    ELSE <<>>

\* A client's parse of a stream body: parts of the form boundary,
\* Content-Type: image/jpeg, Content-Length: N, blank line, N bytes, CRLF,
\* one after the other; the last one may stop early when cut is allowed.
RECURSIVE WellFormedParts(_, _)
WellFormedParts(s, cut) ==
    IF Len(s) = 0 THEN TRUE
    ELSE
        LET n == IF Len(s) >= 3 THEN ParseInt(s[3].v) ELSE 0
            whole == Len(s) >= 3 /\ Len(s) >= n + 5
        IN  /\ s[1].t = "boundary" /\ s[1].v = <<"--FRAME">>
            /\ Len(s) >= 2 => s[2].t = "header" /\ s[2].h = "Content-Type"
                                 /\ s[2].v = <<"image/jpeg">>
            /\ Len(s) >= 3 => s[3].t = "header" /\ s[3].h = "Content-Length"
            /\ Len(s) >= 4 => s[4].t = "blank"
            /\ IF whole
               THEN /\ \A i \in 5..(n + 4) : s[i].t = "byte"
                    /\ s[n + 5].t = "crlf"
                    /\ WellFormedParts(SubSeq(s, n + 6, Len(s)), cut)
               ELSE /\ cut
                    /\ \A i \in 5..Len(s) : s[i].t = "byte"

\* C4: whatever the number of sessions and the interleaving, what a stream
\* connection has received after the response headers is a run of well-formed
\* parts (Content-Length equal to the number of body bytes), only the last of
\* which may be cut short, and only by a write failure; every token on a
\* connection was written by that connection's own handler.
C4_WellFormedParts ==
    \A c \in Conns :
        /\ \A i \in 1..Len(out[c]) : out[c][i].by = c
        /\ IsStream(c) =>
              /\ out[c] # <<>> => SubSeq(out[c], 1, Len(StreamHeaders(c))) = StreamHeaders(c)
              /\ WellFormedParts(StreamBody(c), conn[c].error = "write_exception")

\* two sessions at once, each still in its loop with a complete part delivered
C4_Witness ==
    \E c, d \in Conns :
        /\ c # d /\ IsStream(c) /\ IsStream(d)
        /\ conn[c].frame_count >= 1 /\ conn[d].frame_count >= 1
        /\ conn[c].pc \in InLoop /\ conn[d].pc \in InLoop

\* a session whose second part was cut short by a write failure after the
\* headers of the part
C4_WitnessCut ==
    \E c \in Conns :
        /\ IsStream(c) /\ conn[c].error = "write_exception" /\ conn[c].frame_count = 1
        /\ out[c][Len(out[c])].t = "blank"

\* C5: handling GET /health never issues a capture call (every capture call
\* is issued by a Stream Session), and whatever a health handler has written
\* starts with status 200 and, once complete, ends with a body whose status
\* field is "ok", in every camera state.
C5_HealthNeverCaptures ==
    /\ [](\A c \in Conns :
            IsHealth(c) =>
                /\ out[c] # <<>> => out[c][1] = StatusLine(200, c)
                /\ conn[c].pc = "done" =>
                      /\ out[c][Len(out[c])].t = "json"
                      /\ SubSeq(out[c][Len(out[c])].v, 1, 2) = <<"status", "ok">>)
    /\ [][captures' # captures => \E c \in Conns : IsStream(c) /\ IssuesCapture(c)]_vars

\* a health check answered after the camera was stopped, with a session at
\* hand whose capture call raised
C5_Witness ==
    \E h, s \in Conns :
        /\ IsHealth(h) /\ conn[h].pc = "done"
        /\ conn[s].error = "capture_exception"
        /\ cam = "Stopped"

\* C6: while the server runs, a /health request that has been accepted is
\* handled to the end (answered, unless its own client is gone) and an accepted
\* /stream.mjpg request gets its response headers, however many stream
\* sessions are open and although none of them ever ends.
\* A connection is accepted once and never comes back to these positions, so
\* "each such request is served in the end" is "in the end none is waiting".
C6_ServedBesideOpenStreams ==
    <>[](\A c \in Conns : conn[c].pc \notin {"health_headers", "health_body", "send_headers"})

\* a health check answered while an earlier stream session is still in its loop
C6_Witness ==
    \E s, h \in Conns :
        /\ s < h
        /\ IsStream(s) /\ conn[s].pc \in InLoop
        /\ IsHealth(h) /\ conn[h].pc = "done"
        /\ mainpc = "serve_forever"

\* C7: when enumeration finds no camera, the camera is never configured or
\* started, the server is never constructed (no bind, no connection accepted)
\* and main returns 1.
C7_NoCameraNoBind ==
    cameras = 0 =>
        /\ mainpc \in {"probed", "exited"}
        /\ cam = "Probing"
        /\ httpd = "None"
        /\ \A i \in 1..Len(mainCalls) : mainCalls[i] # "bind"
        /\ \A c \in Conns : conn[c].pc = "idle"
        /\ mainpc = "exited" => exitCode = 1

\* main has returned 1 after an enumeration that found nothing
C7_Witness == cameras = 0 /\ mainpc = "exited" /\ exitCode = 1 /\ httpd = "None"

\* C8: on shutdown the listener-stop step comes before the camera-stop call.
\* The finally block issues picam2.stop() first and httpd.shutdown() second.
C8_ListenerStoppedBeforeCamera == StopIssued => ShutdownIssued

\* C9: no two Stream Sessions are inside capture_array at the same time.  The
\* code takes no lock around the call.
C9_CaptureSerialized ==
    \A c, d \in Conns :
        (conn[c].pc = "in_capture" /\ conn[d].pc = "in_capture") => c = d

\* C10: the camera is stopped only once every Stream Session has left its
\* loop.  The code has no shutdown flag: a session leaves its loop on an
\* exception only, and main stops the camera without waiting.
C10_CameraStoppedAfterSessionsExit ==
    StopIssued => \A c \in Conns : conn[c].pc \notin InLoop

\* ------------------------------------------------- claims on the dispatcher
Accepted(c) == conn[c].pc # "idle"

\* the tokens of a response after the blank line that ends its header block
AfterHeaders(s) ==
    IF \E i \in 1..Len(s) : s[i].t = "blank"
    THEN LET e == CHOOSE i \in 1..Len(s) :
                      s[i].t = "blank" /\ \A j \in 1..(i - 1) : s[j].t # "blank"
         IN  SubSeq(s, e + 1, Len(s))
    ELSE <<>>

StatusOf(s) == IF Len(s) > 0 /\ s[1].t = "status" THEN ParseInt(s[1].v) ELSE 0

\* C11: a handled request for any other path, or with any other method than
\* GET, has been answered 404 with nothing after the header block.  The code
\* answers an unknown path through send_error, which writes an HTML error page
\* (and the extra end_headers() adds a blank line), and a POST gets 501.
C11_Other404EmptyBody ==
    \A c \in Conns :
        (conn[c].pc = "done"
            /\ (conn[c].req.method # "GET"
                   \/ conn[c].req.path \notin {"/", "/stream.mjpg", "/health"})) =>
            /\ StatusOf(out[c]) = 404
            /\ AfterHeaders(out[c]) = <<>>

\* C12: a GET request is handled by the one handler of its exact path and by
\* no other: '/' is answered 301 with Location /stream.mjpg and nothing else,
\* '/stream.mjpg' runs one stream session (one 200 status line), '/health'
\* gets one health reply, any other path gets 404; only a stream session ever
\* issues a capture call.
C12_RoutedToOneHandler ==
    /\ [](\A c \in Conns :
            (Accepted(c) /\ conn[c].req.method = "GET") =>
                LET p == conn[c].req.path
                    n == Cardinality({i \in 1..Len(out[c]) : out[c][i].t = "status"})
                IN  /\ n <= 1
                    /\ p = "/" =>
                          /\ conn[c].pc \in {"redirect", "done", "failed"}
                          /\ conn[c].pc = "done" =>
                                /\ StatusOf(out[c]) = 301
                                /\ \E i \in 1..Len(out[c]) :
                                      /\ out[c][i].h = "Location"
                                      /\ out[c][i].v = <<"/stream.mjpg">>
                                /\ AfterHeaders(out[c]) = <<>>
                    /\ p = "/stream.mjpg" =>
                          /\ conn[c].pc \in {"send_headers", "failed", "ended"} \cup InLoop
                          /\ out[c] # <<>> => StatusOf(out[c]) = 200
                    /\ p = "/health" =>
                          /\ conn[c].pc \in {"health_headers", "health_body", "done", "failed"}
                          /\ conn[c].pc = "done" =>
                                /\ StatusOf(out[c]) = 200
                                /\ Len(AfterHeaders(out[c])) = 1
                                /\ AfterHeaders(out[c])[1].t = "json"
                    /\ p \notin {"/", "/stream.mjpg", "/health"} =>
                          /\ conn[c].pc \in {"send_error", "done", "failed"}
                          /\ conn[c].pc = "done" => StatusOf(out[c]) = 404)
    /\ [][\A c \in Conns :
            IssuesCapture(c) => conn[c].req = [method |-> "GET", path |-> "/stream.mjpg"]]_vars

\* a redirect answered on one connection and a stream session with a part
\* delivered on the other
C12_Witness ==
    \E c, d \in Conns :
        /\ conn[c].req = [method |-> "GET", path |-> "/"] /\ conn[c].pc = "done"
        /\ conn[d].req = [method |-> "GET", path |-> "/stream.mjpg"]
        /\ conn[d].frame_count >= 1

\* ---------------------------------------------- claims on session failures
SessionFailed(c) == conn[c].error \in {"write_exception", "capture_exception"}

\* C13: as long as serve_forever runs (no shutdown yet), the next connection
\* can be accepted however many sessions have ended in a write failure or a
\* capture exception, and a step in which a session fails changes nothing of
\* the main thread.
C13_AcceptsAfterFailures ==
    /\ [](\A c \in Conns :
            (/\ mainpc = "serve_forever"
             /\ conn[c].pc = "idle"
             /\ \A d \in Conns : d < c => conn[d].pc # "idle") => ENABLED Accept(c))
    /\ [][(\E c \in Conns : ~SessionFailed(c) /\ SessionFailed(c)') =>
              UNCHANGED mainVars]_vars

\* the first session has failed and the connection accepted next is being
\* served a stream: its header block is out and a part has been written
C13_Witness ==
    /\ mainpc = "serve_forever"
    /\ SessionFailed(1)
    /\ conn[1].frame_count = 0
    /\ conn[2].req = [method |-> "GET", path |-> "/stream.mjpg"]
    /\ conn[2].frame_count >= 1

\* the step in which connection c's encode fails: the capture call is left
\* without an encoded buffer and without an exception
EncodeFails(c) ==
    /\ conn[c].pc = "in_capture"
    /\ conn'[c].pc # "in_capture"
    /\ conn'[c].buffer = 0
    /\ conn'[c].error = "none"

\* C14: a failed encode drops that frame only: nothing is written on any
\* connection, the session's frame counter stays, the session is still
\* connected and stands at the capture call of the next iteration.
C14_EncodeFailureDropsFrame ==
    [][\A c \in Conns :
          EncodeFails(c) =>
              /\ out' = out
              /\ conn'[c].frame_count = conn[c].frame_count
              /\ conn'[c].pc = "capture"
              /\ conn'[c].req = conn[c].req
              /\ \A d \in Conns \ {c} : conn'[d] = conn[d]]_vars

\* two capture calls were made by the only session, it was never cut off,
\* and it has written one part: the other frame was dropped
C14_Witness ==
    \E c \in Conns :
        /\ IsStream(c)
        /\ conn[c].pc = "sleep"
        /\ conn[c].frame_count = 1
        /\ captures = 2
        /\ \A d \in Conns \ {c} : ~IsStream(d)

\* ------------------------------------------------ claims on the lifecycle
CamRank(st) ==
    CASE st = "Uninitialized" -> 0
      [] st = "Probing"       -> 1
      [] st = "Configured"    -> 2
      [] st = "Started"       -> 3
      [] st = "Stopped"       -> 4

Issued(call) == Cardinality({i \in 1..Len(mainCalls) : mainCalls[i] = call})

\* C15: the camera state only moves forward, one state at a time, along
\* Uninitialized, Probing, Configured, Started, Stopped; picam2.start() and
\* picam2.stop() are each called at most once in a run; a run that failed
\* while Probing or Configured has exited with the camera never started or
\* stopped.
C15_LifecycleForwardOnly ==
    /\ [][CamRank(cam) <= CamRank(cam') /\ CamRank(cam') <= CamRank(cam) + 1]_vars
    /\ [](Issued("start") <= 1 /\ Issued("stop") <= 1)
    /\ []((mainpc = "exited" /\ cam \in {"Probing", "Configured"}) =>
              exitCode = 1 /\ Issued("stop") = 0 /\ httpd = "None")
    /\ [][mainpc = "exited" => cam' = cam /\ mainCalls' = mainCalls]_vars

\* a complete run: started once, served, stopped once, exited
C15_Witness ==
    /\ mainpc = "exited"
    /\ cam = "Stopped"
    /\ Issued("start") = 1
    /\ Issued("stop") = 1

\* a run whose startup failed in Configured (configure or start raised)
C15_WitnessAbort == mainpc = "exited" /\ cam = "Configured" /\ exitCode = 1

\* C16: a session comes to a capture call only from sending its headers
\* (first iteration) or from the pacing sleep, so between two consecutive
\* capture calls of a session the sleep of line 101 has run.  The code's
\* "continue" on a failed encode goes from the capture call straight to the
\* next one.
C16_EveryIterationPaced ==
    [][\A c \in Conns :
          (conn'[c].pc = "capture" /\ conn[c].pc # "capture") =>
              conn[c].pc \in {"send_headers", "sleep"}]_vars

\* --------------------------------------------- claims on the stream output
\* the parts a stream has written in full: each ends with the CRLF that
\* follows the JPEG bytes, which is the last write of a part
RECURSIVE CompleteParts(_)
CompleteParts(s) ==
    IF s = <<>> THEN 0
    ELSE (IF Head(s).t = "crlf" THEN 1 ELSE 0) + CompleteParts(Tail(s))

C17_WitnessCut ==
    \E c \in Conns :
        /\ conn[c].error = "write_exception"
        /\ conn[c].frame_count = 0
        /\ \E i \in 1..Len(out[c]) : out[c][i].t = "boundary"

\* the header block of a response: its tokens up to the first blank line
HeaderBlock(s) ==
    IF \E i \in 1..Len(s) : s[i].t = "blank"
    THEN SubSeq(s, 1, Len(s) - Len(AfterHeaders(s)))
    ELSE s

Has(s, name, value) ==
    Cardinality({i \in 1..Len(s) : s[i].t = "header" /\ s[i].h = name /\ s[i].v = <<value>>}) = 1

\* C18: a stream session that has reached its loop has written one 200 status
\* line, followed by a header block with Age: 0, Cache-Control: no-cache,
\* private, Pragma: no-cache, and Content-Type: multipart/x-mixed-replace;
\* boundary=FRAME, each once; every part comes after that block, and before
\* the block is out the session has made no capture call.
C18_HeadersOnceFirst ==
    \A c \in Conns :
        IsStream(c) =>
            /\ conn[c].pc = "send_headers" => out[c] = <<>>
            /\ conn[c].pc \in InLoop \cup {"ended"} =>
                  LET h == HeaderBlock(out[c])
                  IN  /\ StatusOf(out[c]) = 200
                      /\ Cardinality({i \in 1..Len(out[c]) : out[c][i].t = "status"}) = 1
                      /\ \A o \in {h, out[c]} :
                            /\ Has(o, "Age", "0")
                            /\ Has(o, "Cache-Control", "no-cache, private")
                            /\ Has(o, "Pragma", "no-cache")
                            /\ Has(o, "Content-Type", "multipart/x-mixed-replace; boundary=FRAME")
                      /\ h[Len(h)].t = "blank"
                      /\ \A i \in 1..Len(h) : h[i].t \in {"status", "header", "blank"}
            /\ conn[c].pc = "failed" => out[c] = <<>>

\* a session in its second iteration, with one part after the header block
C18_Witness ==
    \E c \in Conns :
        /\ IsStream(c)
        /\ conn[c].pc = "in_capture"
        /\ conn[c].frame_count = 1
        /\ Len(AfterHeaders(out[c])) > 0

\* ------------------------------------------- claims on the camera handle
\* the camera field of a health reply that has been written
ReportedCamera(c) == out[c][Len(out[c])].v[4]

HealthReplied(c) ==
    IsHealth(c) /\ Len(out[c]) > 0 /\ out[c][Len(out[c])].t = "json"

\* C19: every health reply says "camera": "connected".  Requests are only
\* handled once the server is bound, the server is only bound with the handle
\* a successful initialize_camera returned, and the handle is never reset,
\* not by picam2.stop() either.
C19_HealthAlwaysConnected ==
    /\ \A c \in Conns : HealthReplied(c) => ReportedCamera(c) = "connected"
    /\ (httpd = "bound" \/ \E c \in Conns : Accepted(c)) => picam2 = "Picamera2"

\* a health reply written after picam2.stop(): the request was accepted
\* before the interrupt and its body is written after the camera stopped
C19_Witness ==
    \E c \in Conns :
        /\ HealthReplied(c)
        /\ cam = "Stopped"
        /\ ReportedCamera(c) = "connected"

\* C20: a run that has exited with the camera still Started failed in the
\* test capture or in creating the server: it returned 1 and picam2.stop()
\* was never called; picam2.stop() is only called in a run that bound the
\* server and entered serve_forever.
C20_NoStopOnLateStartupFailure ==
    /\ (mainpc = "exited" /\ cam = "Started") =>
           /\ exitCode = 1
           /\ Issued("stop") = 0
           /\ Issued("shutdown") = 0
           /\ \A c \in Conns : ~Accepted(c)
    /\ Issued("stop") > 0 => (Issued("bind") = 1 /\ httpd = "bound")
    /\ (mainpc = "exited" /\ exitCode = 0) => cam = "Stopped"

\* startup failed in the server constructor, after a good test capture
C20_Witness ==
    /\ mainpc = "exited"
    /\ exitCode = 1
    /\ cam = "Started"
    /\ picam2 = "Picamera2"
    /\ httpd = "None"

\* startup failed in the test capture
C20_WitnessTestCapture ==
    /\ mainpc = "exited"
    /\ exitCode = 1
    /\ cam = "Started"
    /\ picam2 = "None"

====
